---- MODULE Spec2Model ----
(***************************************************************************)
(* State replication of the aws-replicator extension                       *)
(* (aws_replicator/service_states.py): the three resource kinds            *)
(*   AWS::SQS::Queue      StateReplicatorSQSQueue                          *)
(*   AWS::DynamoDB::Table StateReplicatorDynamoDBTable                     *)
(*   AWS::S3::Bucket      StateReplicatorS3Bucket                          *)
(* and the transport helper _post_request_to_instance.                     *)
(*                                                                         *)
(* One behaviour replicates one resource: Init picks the kind, the remote  *)
(* resource and the local resource; the operator may run the replication   *)
(* up to MaxRuns times.  Remote and local service calls may fail.          *)
(***************************************************************************)
EXTENDS Integers, Sequences, FiniteSets, TLC

\* ------------------------------------------------------------------ bounds
MaxRuns == 2      \* replication runs the operator starts in one behaviour
MaxBatch == 2     \* messages one receive_message response may carry
MaxExpire == 2    \* visibility timeouts that elapse in one behaviour
MaxRows == 3      \* primary keys 1..MaxRows of the remote table
PageMax == 2      \* rows one scan page may carry

\* --------------------------------------------------------------- universes
Kinds == {"AWS::SQS::Queue", "AWS::DynamoDB::Table", "AWS::S3::Bucket"}

\* A remote message is a dict; MsgA lacks the optional integrity field.
MsgA == [MessageId |-> "a", Body |-> "body-a"]
MsgB == [MessageId |-> "b", Body |-> "body-b", MD5OfMessageAttributes |-> "md5-b"]
MsgOld == [MessageId |-> "old", Body |-> "body-old", MD5OfMessageAttributes |-> "None"]
RemoteMsgs == {MsgA, MsgB}

\* Regions of the local SQS backend, in the iteration order of regions().items().
RegionOrder == <<"us-east-1", "eu-west-1">>
QueueName == "q"
OtherQueue == "other"

VARIABLES
  kind,           \* the resource kind being replicated
  override,       \* how the caller passes a remote client to the run, if it does
  clients,        \* the clients the remote calls of the current run went through
  pc,             \* position of the replication run
  runs,           \* runs started so far
  startLocal,     \* local resource when the current run started
  stage,          \* the call at which the current run failed ("" if it did not)
  writes,         \* local writes issued by the current run
  history,        \* finished runs: outcome, failing stage, local state before/after
  \* --- queue kind
  remoteVisible,  \* remote queue: visible messages, in delivery order
  remoteInflight, \* remote queue: how often each message is in flight (received,
                  \* invisible until its timeout)
  expired,        \* visibility timeouts elapsed so far
  messages,       \* line 68: the accumulated messages
  polls,          \* the receive_message responses of the current run, in order
  request,        \* the ReplicateStateRequest built at lines 76-81
  posts,          \* requests.post calls of the current run
  response,       \* the HTTP response of requests.post
  regions,        \* local SqsBackend.regions(): per region, queue name -> messages
  injections,     \* add_extended_state_internal calls: state, backend before/after
  \* --- table kind
  remoteTable,    \* remote table: primary key -> attribute value
  localTable,     \* local table: exists, rows
  first_request,  \* line 113
  scanResponse,   \* line 114/118: the last scan response
  scans,          \* the scans of the current run: kwargs and response
  \* --- bucket kind
  remoteBucket,   \* remote bucket: key -> size, body
  localBucket,    \* local bucket: exists, objects (key -> body)
  pending,        \* objects handed to parallelize, not yet taken by a worker
  inflight,       \* objects a pool worker is copying
  taskFailed,     \* a copy_object call raised
  written         \* keys the current run has put into the local bucket

common == <<kind, override, clients, pc, runs, startLocal, stage, writes, history>>
qvars == <<remoteVisible, remoteInflight, expired, messages, polls, request, posts,
           response, regions, injections>>
tvars == <<remoteTable, localTable, first_request, scanResponse, scans>>
bvars == <<remoteBucket, localBucket, pending, inflight, taskFailed, written>>
vars == <<common, qvars, tvars, bvars>>

\* ----------------------------------------------------------------- helpers
IsQueue == kind = "AWS::SQS::Queue"
IsTable == kind = "AWS::DynamoDB::Table"
IsBucket == kind = "AWS::S3::Bucket"

Min(a, b) == IF a < b THEN a ELSE b

\* Sequences over S of length at most n.
SeqsUpTo(S, n) == UNION {[1..k -> S] : k \in 0..n}

\* How many times m occurs in the sequence s.
Count(s, m) == Cardinality({i \in 1..Len(s) : s[i] = m})

\* The empty dict {}.
EmptyDict == <<>>

\* The local resource of the kind being replicated.
LocalOf(k, q, t, b) ==
  CASE k = "AWS::SQS::Queue" -> q
    [] k = "AWS::DynamoDB::Table" -> t
    [] OTHER -> b

Local == LocalOf(kind, regions, localTable, localBucket)

\* The run ends: "done" when it returned, "failed" when a call raised at stage st.
Finish(outcome, st, local) ==
  /\ pc' = outcome
  /\ stage' = st
  /\ history' = Append(history, [outcome |-> outcome, stage |-> st, writes |-> writes,
                                before |-> startLocal, after |-> local])

\* ------------------------------------------------------- the remote client
\* lines 61, 104, 126: the value the parameter remote_client is bound to.  The
\* queue method is declared (self, state=None, remote_client=None), so a first
\* positional argument is bound to state; the table and bucket methods are
\* declared (self, remote_client=None).
remote_client(k, passed) ==
  CASE passed = "none" -> "None"
    [] passed = "positional" /\ k = "AWS::SQS::Queue" -> "None"
    [] OTHER -> "override"

\* lines 64, 108, 130: the client the remote calls of the run are made through.
\* The queue and table methods take remote_client or a default client; the
\* bucket method constructs boto3.resource("s3") whatever it is passed.
remote(k, rc) ==
  CASE k = "AWS::S3::Bucket" -> "default"
    [] rc # "None" -> rc
    [] OTHER -> "default"

\* ------------------------------------------------------------- queue kind
\* An assignment message[key] = default, which replaces a value already there.
setitem(message, key, default) == (key :> default) @@ message

\* line 97: dict.setdefault(key, default)
setdefault(message, key, default) ==
  IF key \in DOMAIN message THEN message ELSE message @@ (key :> default)

\* A put that drops a message the queue already holds.
put_dedup(queue, message) ==
  IF \E i \in 1..Len(queue) : queue[i] = message THEN queue ELSE Append(queue, message)

\* line 98: queue.put(Message(**message)) appends to the local queue
put(queue, message) == Append(queue, message)

\* lines 96-98: the loop over the payload's messages
RECURSIVE PutMessages(_, _)
PutMessages(queue, msgs) ==
  IF msgs = <<>> THEN queue
  ELSE PutMessages(put(queue, setdefault(Head(msgs), "MD5OfMessageAttributes", "None")),
                   Tail(msgs))

\* A lookup of the payload under a key of another casing.
StateMessagesLowercase(state) ==
  IF "messages" \in DOMAIN state THEN state.messages ELSE <<>>

\* line 90: state.get("Messages") or []
StateMessages(state) == IF "Messages" \in DOMAIN state THEN state.Messages ELSE <<>>

\* lines 92-99: the first region that holds the queue gets the messages (break)
RECURSIVE InjectFrom(_, _, _, _)
InjectFrom(backend, i, queue_name, msgs) ==
  IF i > Len(backend) THEN backend
  ELSE IF queue_name \notin DOMAIN backend[i].queues
       THEN InjectFrom(backend, i + 1, queue_name, msgs)
       ELSE [backend EXCEPT ![i].queues[queue_name] = PutMessages(@, msgs)]

\* The loop of lines 92-99 without its break: every region's queue gets the messages.
RECURSIVE InjectAllFrom(_, _, _, _)
InjectAllFrom(backend, i, queue_name, msgs) ==
  IF i > Len(backend) THEN backend
  ELSE IF queue_name \notin DOMAIN backend[i].queues
       THEN InjectAllFrom(backend, i + 1, queue_name, msgs)
       ELSE InjectAllFrom([backend EXCEPT ![i].queues[queue_name] = PutMessages(@, msgs)],
                          i + 1, queue_name, msgs)

add_extended_state_internal_nobreak(backend, props, state) ==
  [raised |-> "none",
   regions |-> InjectAllFrom(backend, 1, props.QueueName, StateMessages(state))]

\* lines 84-99: StateReplicatorSQSQueue.add_extended_state_internal: what it
\* raises and the backend it leaves.  No path of the method raises: when no
\* region holds the queue the loop ends and the method returns.
add_extended_state_internal(backend, props, state) ==
  [raised |-> "none",
   regions |-> InjectFrom(backend, 1, props.QueueName, StateMessages(state))]

\* Whether some region of the backend holds the queue.
HasQueue(backend, queue_name) ==
  \E i \in 1..Len(backend) : queue_name \in DOMAIN backend[i].queues

\* The first region, in iteration order, that holds the queue (0 if none).
FirstMatch(backend, queue_name) ==
  IF HasQueue(backend, queue_name)
  THEN CHOOSE i \in 1..Len(backend) :
         /\ queue_name \in DOMAIN backend[i].queues
         /\ \A j \in 1..(i - 1) : queue_name \notin DOMAIN backend[j].queues
  ELSE 0

\* lines 76-81: state = {**self.props, "Messages": messages} in a ReplicateStateRequest
ReplicateStateRequest(props, msgs, queue_url) ==
  [Type |-> "AWS::SQS::Queue",
   Properties |-> ("Messages" :> msgs) @@ props,
   PhysicalResourceId |-> queue_url]

\* The receiving endpoint of the local instance: decode the envelope, resolve the
\* kind, run its injector; an injector that raises makes it answer with an error
\* status.  Only the queue kind overrides the injector; the other kinds inherit
\* the empty add_extended_state_internal of lines 52-53.
HandleRequest(req, backend) ==
  IF ~({"Type", "PhysicalResourceId", "Properties"} \subseteq DOMAIN req)
  THEN [status_code |-> 400, regions |-> backend, injected |-> FALSE, raised |-> "none"]
  ELSE IF req.Type \notin Kinds
  THEN [status_code |-> 404, regions |-> backend, injected |-> FALSE, raised |-> "none"]
  ELSE IF req.Type = "AWS::SQS::Queue"
  THEN LET r == add_extended_state_internal(backend, req.Properties, req.Properties)
       IN [status_code |-> IF r.raised = "none" THEN 200 ELSE 500,
           regions |-> r.regions, injected |-> TRUE, raised |-> r.raised]
  ELSE [status_code |-> 200, regions |-> backend, injected |-> FALSE, raised |-> "none"]

\* requests.Response.ok
ResponseOk(resp) == resp.status_code < 400

\* lines 149-150 with the assertion left out: the response is returned whatever it is.
PostOutcomeUnchecked(resp) == "done"

\* A response that is not ok sends the run back to post the request again.
PostOutcomeRetry(resp) == IF ResponseOk(resp) THEN "done" ELSE "post"

\* lines 149-150: assert response.ok; return response
PostOutcome(resp) == IF ResponseOk(resp) THEN "done" ELSE "failed"

\* ------------------------------------------------------------- table kind
RemoteVals == {"v1", "v2"}
OldRows == {[pk |-> 0, val |-> "old"], [pk |-> 1, val |-> "old"]}

\* A put that adds the row and keeps a row that has the same primary key.
put_item_keep(rows, item) == rows \cup {item}

\* line 121: batch.put_item(Item=item) writes the row under its primary key,
\* replacing the row that has the same key
put_item(rows, item) == {r \in rows : r.pk # item.pk} \cup {item}

\* A batch write that replaces the rows of the table by the rows of the page.
BatchWriteReplace(rows, items) == {items[i] : i \in 1..Len(items)}

\* lines 119-121: the batch writer puts every item of the page
RECURSIVE BatchWrite(_, _)
BatchWrite(rows, items) ==
  IF items = <<>> THEN rows
  ELSE BatchWrite(put_item(rows, Head(items)), Tail(items))

\* A scan that starts from the beginning whatever the previous response was.
ScanKwargsRestart(first, resp) == EmptyDict

\* line 116: kwargs of the next scan
ScanKwargs(first, resp) ==
  IF first THEN EmptyDict ELSE [ExclusiveStartKey |-> resp.LastEvaluatedKey]

\* line 115: the loop condition
LoopContinues(first, resp) == first \/ "LastEvaluatedKey" \in DOMAIN resp

\* The key a scan starts after (0: from the beginning).
StartOf(kwargs) ==
  IF "ExclusiveStartKey" \in DOMAIN kwargs THEN kwargs.ExclusiveStartKey ELSE 0

\* Keys of the remote table a scan starting after key start has yet to evaluate.
Remaining(table, start) == {k \in DOMAIN table : k > start}

\* The n smallest of them.
PageKeys(table, start, n) ==
  {k \in Remaining(table, start) :
     Cardinality({j \in Remaining(table, start) : j < k}) < n}

MaxOf(S) == CHOOSE k \in S : \A j \in S : j <= k

RECURSIVE SortedRows(_, _)
SortedRows(table, keys) ==
  IF keys = {} THEN <<>>
  ELSE LET k == CHOOSE k \in keys : \A j \in keys : k <= j
       IN <<[pk |-> k, val |-> table[k]]>> \o SortedRows(table, keys \ {k})

\* remote_table.scan(**kwargs): the responses DynamoDB may give.  A page holds up
\* to PageMax rows in key order; LastEvaluatedKey is present while rows remain,
\* and may be present on a page that happens to end with the table's last row.
ScanResponses(table, kwargs) ==
  LET start == StartOf(kwargs)
      page(n) == PageKeys(table, start, n)
  IN {[Items |-> SortedRows(table, page(n)), LastEvaluatedKey |-> MaxOf(page(n))] :
        n \in {m \in 1..PageMax : page(m) # {}}}
     \cup {[Items |-> SortedRows(table, page(n))] :
        n \in {m \in 1..PageMax : page(m) = Remaining(table, start)}}

\* ------------------------------------------------------------ bucket kind
BucketKeys == {"k1", "k2"}
Bodies == {"x", "y"}

\* line 135
max_object_size == 1000 * 1000

\* line 143: size=15, the number of pool workers
PoolSize == 15

\* line 143: remote_bucket.objects.all() lists the keys of a bucket in this order,
\* and the pool hands the objects to its workers in the order of the list.
ListOrder ==
  <<"k1", "k2", "k3", "k4", "k5", "k6", "k7", "k8", "k9",
    "l0", "l1", "l2", "l3", "l4", "l5", "l6">>

\* The first object of the list that no worker has taken yet.
NextObject(todo) ==
  ListOrder[CHOOSE i \in 1..Len(ListOrder) :
              /\ ListOrder[i] \in todo
              /\ \A j \in 1..(i - 1) : ListOrder[j] \notin todo]

\* A pool that starts a worker for every object of the list.
FreeWorkerPerObject(busy) == TRUE

\* line 143: parallelize(..., size=15): a worker of the pool is free
FreeWorker(busy) == Cardinality(busy) < PoolSize

Sizes == {max_object_size - 1, max_object_size, max_object_size + 1}

\* A size test that also skips an object of exactly max_object_size bytes.
SkipsFromThreshold(obj) == obj.size >= max_object_size

\* line 138: copy_object skips the object
Skips(obj) == obj.size > max_object_size

\* A put that writes the bucket back from the contents it had when the run
\* started, losing what other workers have written since.
put_object_lost_update(objects, key, body) == (key :> body) @@ startLocal.objects

\* A put that keeps the object already stored under the key.
put_object_if_absent(objects, key, body) == objects @@ (key :> body)

\* line 141: local_bucket.put_object(Key=obj.key, Body=...) stores the body under the key
put_object(objects, key, body) == (key :> body) @@ objects

\* ------------------------------------------------------------------- Init
QueueProps == [QueueName |-> QueueName]

\* The backlog of the remote queue: its messages are distinct (every message of
\* a queue has its own MessageId), in any delivery order.
Backlogs ==
  {s \in SeqsUpTo(RemoteMsgs, Cardinality(RemoteMsgs)) :
     \A i, j \in 1..Len(s) : i # j => s[i] # s[j]}
QueueUrl == "https://sqs/q"

\* The queues a region of the local backend may hold initially: the first region
\* holds a queue of another name and the replicated queue is absent, empty or
\* not; in a later region the replicated queue is absent or holds a message.
RegionQueues(i) ==
  LET base == IF i = 1 THEN (OtherQueue :> <<MsgOld>>) ELSE EmptyDict
  IN {base} \cup {(QueueName :> c) @@ base :
                    c \in IF i = 1 THEN {<<>>, <<MsgOld>>} ELSE {<<MsgOld>>}}

Backends ==
  {[i \in 1..Len(RegionOrder) |-> [region |-> RegionOrder[i], queues |-> f[i]]] :
     f \in {g \in [1..Len(RegionOrder) -> UNION {RegionQueues(i) : i \in 1..Len(RegionOrder)}] :
              \A i \in 1..Len(RegionOrder) : g[i] \in RegionQueues(i)}}

RemoteTables == UNION {[K -> RemoteVals] : K \in SUBSET (1..MaxRows)}
LocalTables ==
  {[exists |-> FALSE, rows |-> {}]} \cup {[exists |-> TRUE, rows |-> R] : R \in SUBSET OldRows}

RemoteBuckets == UNION {[K -> [size : Sizes, body : Bodies]] : K \in SUBSET BucketKeys}
OldObjects == {EmptyDict, [k1 |-> "old"], [k0 |-> "old"], [k0 |-> "old", k1 |-> "old"]}
LocalBuckets ==
  {[exists |-> FALSE, objects |-> EmptyDict]}
    \cup {[exists |-> TRUE, objects |-> o] : o \in OldObjects}

NoResponse == [status_code |-> 0]

InitOf(passed) ==
  /\ kind \in Kinds
  /\ override \in passed
  /\ clients = {}
  /\ pc = "idle"
  /\ runs = 0
  /\ stage = ""
  /\ writes = 0
  /\ history = <<>>
  /\ remoteVisible \in (IF kind = "AWS::SQS::Queue" THEN Backlogs ELSE {<<>>})
  /\ remoteInflight = [m \in RemoteMsgs |-> 0]
  /\ expired = 0
  /\ messages = <<>>
  /\ polls = <<>>
  /\ request = EmptyDict
  /\ posts = 0
  /\ response = NoResponse
  /\ regions \in (IF kind = "AWS::SQS::Queue" THEN Backends ELSE {<<>>})
  /\ injections = <<>>
  /\ remoteTable \in (IF kind = "AWS::DynamoDB::Table" THEN RemoteTables ELSE {<<>>})
  /\ localTable \in (IF kind = "AWS::DynamoDB::Table" THEN LocalTables
                     ELSE {[exists |-> FALSE, rows |-> {}]})
  /\ first_request = TRUE
  /\ scanResponse = EmptyDict
  /\ scans = <<>>
  /\ remoteBucket \in (IF kind = "AWS::S3::Bucket" THEN RemoteBuckets ELSE {<<>>})
  /\ localBucket \in (IF kind = "AWS::S3::Bucket" THEN LocalBuckets
                      ELSE {[exists |-> FALSE, objects |-> EmptyDict]})
  /\ pending = {}
  /\ inflight = {}
  /\ taskFailed = FALSE
  /\ written = {}
  /\ startLocal = Local

\* The runs that are called without a remote client.
Init == InitOf({"none"})

\* The runs that are called with a remote client, passed by keyword
\* (remote_client=client) or as the first positional argument.
InitOverride == InitOf({"keyword", "positional"})

\* ---------------------------------------------------------------- actions
\* The operator invokes add_extended_state_external on the resource.
StartRun ==
  /\ pc \in {"idle", "done", "failed"}
  /\ runs < MaxRuns
  /\ runs' = runs + 1
  /\ clients' = {}
  /\ pc' = CASE kind = "AWS::SQS::Queue" -> "get_queue_url"
             [] kind = "AWS::DynamoDB::Table" -> "scan"
             [] OTHER -> "list"
  /\ startLocal' = Local
  /\ stage' = ""
  /\ writes' = 0
  /\ messages' = <<>>
  /\ polls' = <<>>
  /\ request' = EmptyDict
  /\ posts' = 0
  /\ response' = NoResponse
  /\ first_request' = TRUE
  /\ scanResponse' = EmptyDict
  /\ scans' = <<>>
  /\ pending' = {}
  /\ inflight' = {}
  /\ taskFailed' = FALSE
  /\ written' = {}
  /\ UNCHANGED <<kind, override, history, remoteVisible, remoteInflight, expired, regions, injections,
                 remoteTable, localTable, remoteBucket, localBucket>>

\* lines 64-68: resolve the queue URL; the remote call may raise.
GetQueueUrl ==
  /\ pc = "get_queue_url"
  /\ clients' = clients \cup {remote(kind, remote_client(kind, override))}
  /\ \/ /\ Finish("failed", "get_queue_url", regions)
        /\ UNCHANGED <<kind, override, runs, startLocal, writes, qvars, tvars, bvars>>
     \/ /\ pc' = "receive"
        /\ UNCHANGED <<kind, override, runs, startLocal, stage, writes, history, qvars, tvars, bvars>>

\* An accumulation that keeps only the batch just received.
extend_last(acc, msgs) == msgs

\* line 74: messages.extend(msgs)
extend(acc, msgs) == acc \o msgs

\* A receive that leaves the messages it returns visible (a visibility timeout
\* of zero).
StillVisibleAll(visible, n) == visible

\* line 70: receive_message hides the n messages it returns for their visibility
\* timeout; the others stay visible.
StillVisible(visible, n) == SubSeq(visible, n + 1, Len(visible))

\* A drain loop that forwards every batch to the local queue as soon as it is
\* received, instead of after the loop.
ReceiveMessageEager ==
  /\ pc = "receive"
  /\ clients' = clients \cup {remote(kind, remote_client(kind, override))}
  /\ \/ /\ Finish("failed", "receive_message", regions)
        /\ UNCHANGED <<kind, override, runs, startLocal, writes, qvars, tvars, bvars>>
     \/ /\ \E n \in 0..Min(MaxBatch, Len(remoteVisible)) :
             /\ (n = 0) <=> (remoteVisible = <<>>)
             /\ LET msgs == SubSeq(remoteVisible, 1, n)
                IN /\ polls' = Append(polls, msgs)
                   /\ remoteVisible' = StillVisible(remoteVisible, n)
                   /\ remoteInflight' = [m \in RemoteMsgs |-> remoteInflight[m] + Count(msgs, m)]
                   /\ regions' = InjectFrom(regions, 1, QueueName, msgs)
                   /\ IF msgs = <<>>
                      THEN /\ request' = ReplicateStateRequest(QueueProps, messages, QueueUrl)
                           /\ pc' = "post"
                           /\ UNCHANGED messages
                      ELSE /\ messages' = extend(messages, msgs)
                           /\ UNCHANGED <<request, pc>>
        /\ UNCHANGED <<kind, override, runs, startLocal, stage, writes, history, expired, posts,
                       response, injections, tvars, bvars>>

\* lines 69-81: one iteration of the drain loop.  A poll returns the next visible
\* messages (none only when none is visible); an empty poll leaves the loop and
\* builds the request.
ReceiveMessage ==
  /\ pc = "receive"
  /\ clients' = clients \cup {remote(kind, remote_client(kind, override))}
  /\ \/ /\ Finish("failed", "receive_message", regions)
        /\ UNCHANGED <<kind, override, runs, startLocal, writes, qvars, tvars, bvars>>
     \/ /\ \E n \in 0..Min(MaxBatch, Len(remoteVisible)) :
             /\ (n = 0) <=> (remoteVisible = <<>>)
             /\ LET msgs == SubSeq(remoteVisible, 1, n)
                IN /\ polls' = Append(polls, msgs)
                   /\ remoteVisible' = StillVisible(remoteVisible, n)
                   /\ remoteInflight' = [m \in RemoteMsgs |-> remoteInflight[m] + Count(msgs, m)]
                   /\ IF msgs = <<>>
                      THEN /\ request' = ReplicateStateRequest(QueueProps, messages, QueueUrl)
                           /\ pc' = "post"
                           /\ UNCHANGED messages
                      ELSE /\ messages' = extend(messages, msgs)
                           /\ UNCHANGED <<request, pc>>
        /\ UNCHANGED <<kind, override, runs, startLocal, stage, writes, history, expired, posts,
                       response, regions, injections, tvars, bvars>>

\* The remote queue: the visibility timeout of a received message elapses (the
\* run never deletes what it received) and the message is visible again.  Only
\* receive_message reads the remote queue, so a timeout that elapses while the
\* run is past its drain loop is taken when the run has ended.
VisibilityTimeout ==
  /\ IsQueue
  /\ pc \in {"receive", "done", "failed"}
  /\ expired < MaxExpire
  /\ \E m \in RemoteMsgs :
       /\ remoteInflight[m] > 0
       /\ remoteVisible' = Append(remoteVisible, m)
       /\ remoteInflight' = [remoteInflight EXCEPT ![m] = @ - 1]
  /\ expired' = expired + 1
  /\ UNCHANGED <<common, messages, polls, request, posts, response, regions, injections,
                 tvars, bvars>>

\* lines 147-148: requests.post(url, json=request).  The instance is unreachable
\* (the call raises), answers with an error status without running an injector,
\* or handles the request.
PostRequest ==
  /\ pc = "post"
  /\ UNCHANGED clients
  /\ posts' = posts + 1
  /\ \/ /\ Finish("failed", "post", regions)
        /\ UNCHANGED <<writes, response, regions, injections>>
     \/ /\ \E code \in {404, 500} : response' = [status_code |-> code]
        /\ pc' = "assert"
        /\ UNCHANGED <<stage, history, writes, regions, injections>>
     \/ LET r == HandleRequest(request, regions)
        IN /\ response' = [status_code |-> r.status_code]
           /\ regions' = r.regions
           /\ injections' = IF r.injected
                            THEN Append(injections, [state |-> request.Properties,
                                                     before |-> regions,
                                                     after |-> r.regions,
                                                     raised |-> r.raised])
                            ELSE injections
           /\ writes' = IF r.regions # regions
                        THEN writes + Len(StateMessages(request.Properties))
                        ELSE writes
           /\ pc' = "assert"
           /\ UNCHANGED <<stage, history>>
  /\ UNCHANGED <<kind, override, runs, startLocal, remoteVisible, remoteInflight, expired, messages,
                 polls, request, tvars, bvars>>

\* lines 149-150 and the return of line 82
AssertOk ==
  /\ pc = "assert"
  /\ UNCHANGED clients
  /\ Finish(PostOutcome(response), IF PostOutcome(response) = "done" THEN "" ELSE "assert",
            regions)
  /\ UNCHANGED <<kind, override, runs, startLocal, writes, qvars, tvars, bvars>>

\* lines 115-121: one iteration of the scan loop: scan the next page (the remote
\* call may raise) and write its rows to the local table through the batch
\* writer, which raises when it has rows to flush and the table does not exist.
ScanPage ==
  /\ pc = "scan"
  /\ LoopContinues(first_request, scanResponse)
  /\ clients' = clients \cup {remote(kind, remote_client(kind, override))}
  /\ LET kwargs == ScanKwargs(first_request, scanResponse)
     IN \/ /\ scans' = Append(scans, [kwargs |-> kwargs, ok |-> FALSE, response |-> EmptyDict])
           /\ first_request' = FALSE
           /\ Finish("failed", "scan", localTable)
           /\ UNCHANGED <<writes, scanResponse, localTable>>
        \/ \E resp \in ScanResponses(remoteTable, kwargs) :
             /\ scans' = Append(scans, [kwargs |-> kwargs, ok |-> TRUE, response |-> resp])
             /\ first_request' = FALSE
             /\ scanResponse' = resp
             /\ IF localTable.exists
                THEN /\ localTable' = [localTable EXCEPT !.rows = BatchWrite(@, resp.Items)]
                     /\ writes' = writes + Len(resp.Items)
                     /\ UNCHANGED <<pc, stage, history>>
                ELSE IF resp.Items = <<>>
                THEN UNCHANGED <<pc, stage, history, writes, localTable>>
                ELSE /\ Finish("failed", "batch_write", localTable)
                     /\ UNCHANGED <<writes, localTable>>
  /\ UNCHANGED <<kind, override, runs, startLocal, remoteTable, qvars, bvars>>

\* line 115: the loop condition is false and the method returns
ScanDone ==
  /\ pc = "scan"
  /\ UNCHANGED clients
  /\ ~LoopContinues(first_request, scanResponse)
  /\ Finish("done", "", localTable)
  /\ UNCHANGED <<kind, override, runs, startLocal, writes, qvars, tvars, bvars>>

\* line 143: list(remote_bucket.objects.all()); the listing may raise.  The
\* objects are handed to parallelize.
ListObjects ==
  /\ pc = "list"
  /\ clients' = clients \cup {remote(kind, remote_client(kind, override))}
  /\ \/ /\ Finish("failed", "list", localBucket)
        /\ UNCHANGED pending
     \/ /\ pending' = DOMAIN remoteBucket
        /\ pc' = "copy"
        /\ UNCHANGED <<stage, history>>
  /\ UNCHANGED <<kind, override, runs, startLocal, writes, qvars, tvars, remoteBucket, localBucket,
                 inflight, taskFailed, written>>

\* parallelize(copy_object, objects, size=15): a free worker of the pool takes
\* the next object of the list.
WorkerTake ==
  /\ pc = "copy"
  /\ FreeWorker(inflight)
  /\ pending # {}
  /\ pending' = pending \ {NextObject(pending)}
  /\ inflight' = inflight \cup {NextObject(pending)}
  /\ UNCHANGED <<common, qvars, tvars, remoteBucket, localBucket, taskFailed, written>>

\* lines 137-141: copy_object(obj) in a worker: skip a large object, else get the
\* body from the remote bucket (may raise) and put it into the local bucket
\* (raises when the bucket does not exist).
CopyObject ==
  /\ pc = "copy"
  /\ \E k \in inflight :
       /\ inflight' = inflight \ {k}
       /\ clients' = IF Skips(remoteBucket[k])
                     THEN clients
                     ELSE clients \cup {remote(kind, remote_client(kind, override))}
       /\ IF Skips(remoteBucket[k])
          THEN UNCHANGED <<stage, writes, localBucket, taskFailed, written>>
          ELSE \/ /\ taskFailed' = TRUE
                  /\ stage' = IF taskFailed THEN stage ELSE "get_object"
                  /\ UNCHANGED <<writes, localBucket, written>>
               \/ /\ ~localBucket.exists
                  /\ taskFailed' = TRUE
                  /\ stage' = IF taskFailed THEN stage ELSE "put_object"
                  /\ UNCHANGED <<writes, localBucket, written>>
               \/ /\ localBucket.exists
                  /\ localBucket' = [localBucket EXCEPT
                                       !.objects = put_object(@, k, remoteBucket[k].body)]
                  /\ written' = written \cup {k}
                  /\ writes' = writes + 1
                  /\ UNCHANGED <<stage, taskFailed>>
  /\ UNCHANGED <<kind, override, pc, runs, startLocal, history, qvars, tvars, remoteBucket, pending>>

\* line 143: pool.map returns once every object has been handled, and raises the
\* first exception of a copy_object call if there was one.
PoolJoin ==
  /\ pc = "copy"
  /\ UNCHANGED clients
  /\ pending = {}
  /\ inflight = {}
  /\ Finish(IF taskFailed THEN "failed" ELSE "done", stage, localBucket)
  /\ UNCHANGED <<kind, override, runs, startLocal, writes, qvars, tvars, bvars>>

Next ==
  \/ StartRun
  \/ GetQueueUrl
  \/ ReceiveMessage
  \/ VisibilityTimeout
  \/ PostRequest
  \/ AssertOk
  \/ ScanPage
  \/ ScanDone
  \/ ListObjects
  \/ WorkerTake
  \/ CopyObject
  \/ PoolJoin

Spec == Init /\ [][Next]_vars

SpecOverride == InitOverride /\ [][Next]_vars

\* A bucket of more objects than the pool has workers, each below the size
\* limit, replicated into an existing empty local bucket.
LargeBucket ==
  [k \in {ListOrder[i] : i \in 1..Len(ListOrder)} |-> [size |-> max_object_size - 1, body |-> "x"]]

InitPool ==
  /\ kind = "AWS::S3::Bucket"
  /\ override = "none"
  /\ clients = {}
  /\ pc = "idle"
  /\ runs = 0
  /\ stage = ""
  /\ writes = 0
  /\ history = <<>>
  /\ remoteVisible = <<>>
  /\ remoteInflight = [m \in RemoteMsgs |-> 0]
  /\ expired = 0
  /\ messages = <<>>
  /\ polls = <<>>
  /\ request = EmptyDict
  /\ posts = 0
  /\ response = NoResponse
  /\ regions = <<>>
  /\ injections = <<>>
  /\ remoteTable = <<>>
  /\ localTable = [exists |-> FALSE, rows |-> {}]
  /\ first_request = TRUE
  /\ scanResponse = EmptyDict
  /\ scans = <<>>
  /\ remoteBucket = LargeBucket
  /\ localBucket = [exists |-> TRUE, objects |-> EmptyDict]
  /\ pending = {}
  /\ inflight = {}
  /\ taskFailed = FALSE
  /\ written = {}
  /\ startLocal = Local

\* No call of the run raises.
NoCallRaises == pc # "failed" /\ ~taskFailed

\* The bucket runs in which no call raises.
NextPool ==
  \/ StartRun /\ NoCallRaises'
  \/ ListObjects /\ NoCallRaises'
  \/ WorkerTake /\ NoCallRaises'
  \/ CopyObject /\ NoCallRaises'
  \/ PoolJoin /\ NoCallRaises'

SpecPool == InitPool /\ [][NextPool]_vars

\* The thread in the drain loop goes on to its next receive_message call, which
\* returns after at most WaitTimeSeconds or raises.
FairSpec == Init /\ [][Next]_vars /\ WF_vars(ReceiveMessage)

\* ------------------------------------------------------------------ claims
\* The object stored under key k in a bucket's objects, "absent" if there is none.
ObjectAt(objects, k) == IF k \in DOMAIN objects THEN objects[k] ELSE "absent"

\* C1 as the spec states it: a remote object of at least 1,000,000 bytes is
\* never written to the local bucket, and a smaller one is written under its key
\* with its content by a run that completes.
C1_SkipsAtOrAboveThreshold ==
  \A k \in DOMAIN remoteBucket :
    /\ remoteBucket[k].size >= max_object_size => k \notin written
    /\ (pc = "done" /\ remoteBucket[k].size < max_object_size)
         => (k \in written /\ ObjectAt(localBucket.objects, k) = remoteBucket[k].body)

\* C1, amended: a remote object of more than 1,000,000 bytes is never written to
\* the local bucket (the local bucket keeps what it held under that key), and an
\* object of at most 1,000,000 bytes, exactly 1,000,000 included, is written
\* under its key with its content by a run that completes.
C1_SkipsAboveThreshold ==
  \A k \in DOMAIN remoteBucket :
    /\ remoteBucket[k].size > max_object_size
         => /\ k \notin written
            /\ ObjectAt(localBucket.objects, k) = ObjectAt(startLocal.objects, k)
    /\ (pc = "done" /\ remoteBucket[k].size <= max_object_size)
         => (k \in written /\ ObjectAt(localBucket.objects, k) = remoteBucket[k].body)

\* C1 witness: a completed run copied an object of exactly 1,000,000 bytes and
\* skipped a larger one whose key the local bucket already held.
C1_Witness ==
  /\ IsBucket
  /\ pc = "done"
  /\ \E k \in DOMAIN remoteBucket :
       remoteBucket[k].size = max_object_size /\ k \in written
  /\ \E k \in DOMAIN remoteBucket :
       remoteBucket[k].size > max_object_size /\ k \in DOMAIN localBucket.objects

UniqueKeys(rows) == \A r1, r2 \in rows : r1.pk = r2.pk => r1 = r2

\* C2: table replication is idempotent: of two consecutive completed runs against
\* the unchanged remote table, the second leaves the local table as the first
\* left it, with one row per primary key.
C2_TableIdempotent ==
  IsTable =>
    /\ \A i \in 1..Len(history) :
         history[i].outcome = "done" => UniqueKeys(history[i].after.rows)
    /\ \A i \in 1..(Len(history) - 1) :
         (history[i].outcome = "done" /\ history[i + 1].outcome = "done")
           => history[i + 1].after = history[i].after

\* C2 witness: two completed runs, the first of which overwrote a local row that
\* shared its primary key with a remote row.
C2_Witness ==
  /\ IsTable
  /\ Len(history) = 2
  /\ history[1].outcome = "done"
  /\ history[2].outcome = "done"
  /\ [pk |-> 1, val |-> "old"] \in history[1].before.rows
  /\ 1 \in DOMAIN remoteTable
  /\ Cardinality(DOMAIN remoteTable) >= 2

\* The local queue the injection call i targets (region index, 0 if none).
Target(i) == FirstMatch(injections[i].before, QueueName)
QueueLen(backend, r) == Len(backend[r].queues[QueueName])

\* C3: queue injection is not idempotent: one call with a payload of n messages
\* leaves the existing local queue n messages longer, and a second call with the
\* same payload leaves it 2n messages longer than before the first.
C3_QueueInjectionAppends ==
  /\ \A i \in 1..Len(injections) :
       Target(i) # 0
         => QueueLen(injections[i].after, Target(i))
              = QueueLen(injections[i].before, Target(i))
                  + Len(injections[i].state.Messages)
  /\ \A i \in 1..(Len(injections) - 1) :
       (Target(i) # 0 /\ injections[i + 1].state = injections[i].state
          /\ injections[i + 1].before = injections[i].after)
         => QueueLen(injections[i + 1].after, Target(i))
              = QueueLen(injections[i].before, Target(i))
                  + 2 * Len(injections[i].state.Messages)

\* C3 witness: the same payload of two messages was injected twice into an
\* existing local queue.
C3_Witness ==
  /\ Len(injections) = 2
  /\ Target(1) # 0
  /\ injections[2].state = injections[1].state
  /\ Len(injections[1].state.Messages) = 2

\* Message m is in the queue: some message of the queue carries every field of m
\* with m's value.
Holds(queue, m) ==
  \E j \in 1..Len(queue) :
    \A f \in DOMAIN m : f \in DOMAIN queue[j] /\ queue[j][f] = m[f]

\* The replicated queue exists in the backend and is empty wherever it exists.
ExistsEmpty(backend) ==
  /\ HasQueue(backend, QueueName)
  /\ \A i \in 1..Len(backend) :
       QueueName \in DOMAIN backend[i].queues => backend[i].queues[QueueName] = <<>>

\* C4: after a run that completed against an existing, empty local resource,
\* every item the enumeration obtained (received message, scanned row, listed
\* object that is not skipped for its size) is in the local resource.
C4_EnumeratedItemsPresent ==
  pc = "done" =>
    /\ (IsQueue /\ ExistsEmpty(startLocal))
         => \E r \in 1..Len(regions) :
              /\ QueueName \in DOMAIN regions[r].queues
              /\ \A p \in 1..Len(polls) : \A i \in 1..Len(polls[p]) :
                   Holds(regions[r].queues[QueueName], polls[p][i])
    /\ (IsTable /\ startLocal.exists /\ startLocal.rows = {})
         => \A n \in 1..Len(scans) : \A i \in 1..Len(scans[n].response.Items) :
              scans[n].response.Items[i] \in localTable.rows
    /\ (IsBucket /\ startLocal.exists /\ startLocal.objects = EmptyDict)
         => \A k \in DOMAIN remoteBucket :
              remoteBucket[k].size <= max_object_size
                => ObjectAt(localBucket.objects, k) = remoteBucket[k].body

\* C4 witness: a queue run that received two messages completed against an
\* existing, empty local queue.
C4_Witness ==
  /\ IsQueue
  /\ pc = "done"
  /\ ExistsEmpty(startLocal)
  /\ Len(messages) = 2

EnumerationStages == {"get_queue_url", "receive_message", "scan", "list", "get_object"}
TransportStages == {"post", "assert"}

\* C5 as the spec states it: a run that failed at a remote call of the
\* enumeration or at the transport POST has left the local resource as it was.
C5_FailureBeforeInjectLeavesLocal ==
  (pc = "failed" /\ stage \in EnumerationStages \cup TransportStages)
    => Local = startLocal

\* C5, amended: a queue run that failed at a remote call of the enumeration or at
\* the transport POST has left the local backend as it was.  A table or bucket
\* run writes while it enumerates: it has left the local resource as it was when
\* its first scan or its listing failed, and whenever none of its local writes
\* took effect; the local resource differs only if a local write took effect.
C5_FailureBeforeFirstWriteLeavesLocal ==
  pc = "failed" =>
    /\ (IsQueue /\ stage \in EnumerationStages \cup TransportStages) => regions = startLocal
    /\ (IsTable /\ stage = "scan" /\ Len(scans) = 1) => localTable = startLocal
    /\ (IsBucket /\ stage = "list") => localBucket = startLocal
    /\ writes = 0 => Local = startLocal

\* C5 witness: a queue run failed at receive_message after it had received a
\* message, with the local queue in place.
C5_Witness ==
  /\ IsQueue
  /\ pc = "failed"
  /\ stage = "receive_message"
  /\ messages # <<>>
  /\ HasQueue(regions, QueueName)

\* C6 as the spec states it: add_extended_state_internal raises
\* TargetResourceMissingError whenever no region of the backend holds a queue of
\* the descriptor's QueueName; it never returns normally then.
C6_MissingQueueFails ==
  \A i \in 1..Len(injections) :
    ~HasQueue(injections[i].before, QueueName)
      => injections[i].raised = "TargetResourceMissingError"

\* C7: a queue run never reports success unless its one POST was answered with a
\* success status; after an error status or an unreachable instance it has failed.
C7_NonSuccessFailsRun ==
  IsQueue =>
    /\ pc = "done" => (posts = 1 /\ response # NoResponse /\ ResponseOk(response))
    /\ (pc \in {"done", "failed"} /\ posts = 1
          /\ (response = NoResponse \/ ~ResponseOk(response))) => pc = "failed"

\* C7 witness: the instance answered 500 and the run failed at the assertion.
C7_Witness ==
  /\ IsQueue
  /\ pc = "failed"
  /\ stage = "assert"
  /\ response.status_code = 500

HasKey(resp) == "LastEvaluatedKey" \in DOMAIN resp

RECURSIVE ItemCount(_)
ItemCount(log) ==
  IF log = <<>> THEN 0 ELSE Len(Head(log).response.Items) + ItemCount(Tail(log))

\* C8: the first scan carries no start key; every later scan carries the
\* LastEvaluatedKey of the response before it; the loop ends with the first
\* response that has none; by then every remote row has been returned once and
\* is in the local table.
C8_ScanFollowsContinuationKeys ==
  IsTable =>
    /\ scans # <<>> => scans[1].kwargs = EmptyDict
    /\ \A i \in 2..Len(scans) :
         /\ scans[i - 1].ok
         /\ HasKey(scans[i - 1].response)
         /\ scans[i].kwargs = [ExclusiveStartKey |-> scans[i - 1].response.LastEvaluatedKey]
    /\ pc = "done" =>
         /\ scans # <<>>
         /\ scans[Len(scans)].ok
         /\ ~HasKey(scans[Len(scans)].response)
         /\ ItemCount(scans) = Cardinality(DOMAIN remoteTable)
         /\ \A k \in DOMAIN remoteTable : [pk |-> k, val |-> remoteTable[k]] \in localTable.rows
    /\ (pc = "scan" /\ scans # <<>> /\ ~HasKey(scans[Len(scans)].response))
         => ~ENABLED ScanPage

\* C8 witness: a run over a remote table of three rows completed in three scans.
C8_Witness ==
  /\ IsTable
  /\ pc = "done"
  /\ Cardinality(DOMAIN remoteTable) = 3
  /\ Len(scans) = 3

RECURSIVE Concat(_)
Concat(batches) == IF batches = <<>> THEN <<>> ELSE Head(batches) \o Concat(Tail(batches))

\* C9: only the last poll of a run is empty, no poll follows it, and the
\* Messages payload is the concatenation of the received batches in poll order.
C9_PayloadIsConcatenationOfPolls ==
  IsQueue =>
    /\ \A i \in 1..(Len(polls) - 1) : polls[i] # <<>>
    /\ pc = "receive" => (messages = Concat(polls) /\ (polls # <<>> => polls[Len(polls)] # <<>>))
    /\ (pc \in {"post", "assert", "done"} \/ (pc = "failed" /\ stage \in TransportStages))
         => /\ polls # <<>>
            /\ polls[Len(polls)] = <<>>
            /\ request.Properties.Messages = Concat(polls)
            /\ ~ENABLED ReceiveMessage

\* C9 witness: the payload was built from a batch of two messages and a later
\* batch of one.
C9_Witness ==
  /\ IsQueue
  /\ pc = "post"
  /\ Len(polls) = 3
  /\ Len(polls[1]) = 2
  /\ Len(request.Properties.Messages) = 3

\* C10: the payload's messages are appended, in payload order, to the queue of
\* the first region that holds one of that name; every other queue of the
\* backend, of that name or another, is left as it was.
C10_FirstMatchWins ==
  \A n \in 1..Len(injections) :
    LET e == injections[n]
        r == Target(n)
        msgs == e.state.Messages
    IN /\ Len(e.after) = Len(e.before)
       /\ \A j \in 1..Len(e.before) : j # r => e.after[j] = e.before[j]
       /\ r # 0 =>
            LET old == e.before[r].queues[QueueName]
                new == e.after[r].queues[QueueName]
            IN /\ DOMAIN e.after[r].queues = DOMAIN e.before[r].queues
               /\ \A q \in DOMAIN e.before[r].queues \ {QueueName} :
                    e.after[r].queues[q] = e.before[r].queues[q]
               /\ Len(new) = Len(old) + Len(msgs)
               /\ SubSeq(new, 1, Len(old)) = old
               /\ \A i \in 1..Len(msgs) : \A f \in DOMAIN msgs[i] :
                    f \in DOMAIN new[Len(old) + i] /\ new[Len(old) + i][f] = msgs[i][f]

\* C10 witness: two messages were injected while both regions held a queue of
\* the name, and the first region also held a queue of another name.
C10_Witness ==
  /\ Len(injections) >= 1
  /\ \A j \in 1..Len(RegionOrder) : QueueName \in DOMAIN injections[1].before[j].queues
  /\ OtherQueue \in DOMAIN injections[1].before[1].queues
  /\ Len(injections[1].state.Messages) = 2
  /\ injections[1].state.Messages[1] # injections[1].state.Messages[2]

\* C11: during a bucket replication at most 15 copy_object calls are in flight at
\* the same time, however many objects the remote bucket holds.
C11_AtMostFifteenInFlight ==
  IsBucket => Cardinality(inflight) <= 15

\* The bucket holds more than 15 objects, 15 copies are in flight and a further
\* object waits for a worker.
C11_Witness ==
  /\ IsBucket
  /\ pc = "copy"
  /\ Cardinality(DOMAIN remoteBucket) > 15
  /\ Cardinality(inflight) = 15
  /\ pending # {}
  /\ \A k \in inflight : ~Skips(remoteBucket[k])

\* The remote objects that copy_object does not skip.
CopiedKeys == {k \in DOMAIN remoteBucket : ~Skips(remoteBucket[k])}

\* The objects of the local bucket after every copied key has been put over the
\* objects the bucket held before.
ExpectedObjects(before) ==
  [k \in (DOMAIN before) \cup CopiedKeys |->
     IF k \in CopiedKeys THEN remoteBucket[k].body ELSE before[k]]

\* C12: the local bucket after a completed bucket replication does not depend on
\* the order in which the pool workers run and finish: whatever the
\* interleaving, the final mapping of keys to contents is the one determined by
\* the remote bucket and the local bucket the run started from.
C12_FinalBucketIndependentOfOrder ==
  (IsBucket /\ pc = "done") => localBucket.objects = ExpectedObjects(startLocal.objects)

\* A completed run in which two workers wrote different contents under two keys
\* into a bucket that already held an object.
C12_Witness ==
  /\ IsBucket
  /\ pc = "done"
  /\ written = {"k1", "k2"}
  /\ remoteBucket["k1"].body # remoteBucket["k2"].body
  /\ "k0" \in DOMAIN startLocal.objects

\* C13: bucket replication is idempotent and overwrites on key collision: a
\* second completed run over the unchanged remote bucket leaves the local bucket
\* as the first completed run left it, and a local object whose key also exists
\* remotely below the size threshold ends up with the remote content.
C13_BucketIdempotentAndOverwrites ==
  IsBucket =>
    /\ \A i \in 1..(Len(history) - 1) :
         (history[i].outcome = "done" /\ history[i + 1].outcome = "done")
           => history[i + 1].after = history[i].after
    /\ \A i \in 1..Len(history) :
         history[i].outcome = "done" =>
           \A k \in (DOMAIN remoteBucket) \cap (DOMAIN history[i].before.objects) :
             remoteBucket[k].size < max_object_size
               => ObjectAt(history[i].after.objects, k) = remoteBucket[k].body

\* Two completed runs, the first of which found a local object under a key of a
\* remote object below the size threshold and of other content.
C13_Witness ==
  /\ IsBucket
  /\ Len(history) = 2
  /\ history[1].outcome = "done"
  /\ history[2].outcome = "done"
  /\ "k1" \in (DOMAIN remoteBucket) \cap (DOMAIN history[1].before.objects)
  /\ remoteBucket["k1"].size < max_object_size
  /\ history[1].before.objects["k1"] # remoteBucket["k1"].body
  /\ history[1].writes > 0

\* The number of messages of the remote queue, visible or not (each has its own
\* MessageId): the backlog, which no run changes.
BacklogSize ==
  Cardinality({m \in RemoteMsgs : Count(remoteVisible, m) > 0 \/ remoteInflight[m] > 0})

Unfinished == pending \cup inflight

\* The calls the run has made so far leave their mark in these.
CallsMade == <<polls, posts, scans, injections, writes, written, pending, inflight>>

\* C15: no automatic retry.  A queue run posts the envelope at most once, and only
\* after the drain loop has left with its empty poll; a remote call or local
\* write that raised is not issued again in the same run: a raised call of a
\* queue or table run is the last call of the run, a failed scan is the last
\* scan, and the pool hands every object to copy_object at most once.
C15_NoRetry ==
  /\ [](/\ posts <= 1
        /\ (posts > 0) =>
             (/\ pc \in {"assert", "done", "failed"}
              /\ polls # <<>>
              /\ \A i \in 1..Len(polls) : (polls[i] = <<>>) <=> (i = Len(polls)))
        /\ (stage # "" /\ ~IsBucket) => (pc = "failed")
        /\ \A i \in 1..(Len(scans) - 1) : scans[i].ok)
  /\ [][/\ (pc = "failed" /\ runs' = runs) => (CallsMade' = CallsMade)
        /\ (pc = "copy" /\ pc' = "copy") =>
             (/\ Unfinished' \subseteq Unfinished
              /\ pending' \subseteq pending)]_vars

\* A queue run failed because the answer to its one POST was not a success.
C15_Witness ==
  /\ IsQueue
  /\ pc = "failed"
  /\ stage = "assert"
  /\ posts = 1
  /\ ~ResponseOk(response)
  /\ Len(polls) >= 2

\* C16: every message the queue injection appends carries the field
\* MD5OfMessageAttributes: a message of the payload that lacks the field is
\* appended with the default (null) value, one that carries a value keeps it,
\* and every other field is appended as received, with no field added.
C16_IntegrityFieldDefaulted ==
  \A n \in 1..Len(injections) :
    Target(n) # 0 =>
      LET msgs == injections[n].state.Messages
          old == injections[n].before[Target(n)].queues[QueueName]
          new == injections[n].after[Target(n)].queues[QueueName]
      IN \A i \in 1..Len(msgs) :
           LET received == msgs[i]
               appended == new[Len(old) + i]
           IN /\ DOMAIN appended = (DOMAIN received) \cup {"MD5OfMessageAttributes"}
              /\ appended.MD5OfMessageAttributes =
                   IF "MD5OfMessageAttributes" \in DOMAIN received
                   THEN received.MD5OfMessageAttributes
                   ELSE "None"
              /\ \A f \in (DOMAIN received) \ {"MD5OfMessageAttributes"} :
                   appended[f] = received[f]

\* An injection appended a message that lacked the field and one that carried a
\* value for it.
C16_Witness ==
  \E n \in 1..Len(injections) :
    /\ Target(n) # 0
    /\ \E i, j \in 1..Len(injections[n].state.Messages) :
         /\ "MD5OfMessageAttributes" \notin DOMAIN injections[n].state.Messages[i]
         /\ "MD5OfMessageAttributes" \in DOMAIN injections[n].state.Messages[j]
         /\ injections[n].state.Messages[j].MD5OfMessageAttributes # "None"
    /\ QueueLen(injections[n].after, Target(n)) = QueueLen(injections[n].before, Target(n)) + 2

\* C17: for each of the queue, table and bucket kinds, when a remote client is
\* passed to add_extended_state_external every remote call of the run is made
\* through that client and none through a default-constructed one.
C17_RemoteCallsThroughOverride ==
  (override # "none") => (clients \subseteq {"override"})

\* The local resource before the first run.
InitialLocal == IF history = <<>> THEN startLocal ELSE history[1].before

\* C18: replication adds or overwrites and never removes local state: at every
\* point of any sequence of runs, completed, failed or partial, a local row or
\* object whose key does not occur in the remote resource is present with its
\* original content, and every local queue still begins with the messages it
\* held before the runs.
C18_NeverRemovesLocalState ==
  /\ IsTable =>
       /\ localTable.exists = InitialLocal.exists
       /\ \A r \in InitialLocal.rows :
            r.pk \notin DOMAIN remoteTable => r \in localTable.rows
  /\ IsBucket =>
       /\ localBucket.exists = InitialLocal.exists
       /\ \A k \in (DOMAIN InitialLocal.objects) \ (DOMAIN remoteBucket) :
            ObjectAt(localBucket.objects, k) = InitialLocal.objects[k]
  /\ IsQueue =>
       \A j \in 1..Len(InitialLocal) :
         \A q \in DOMAIN InitialLocal[j].queues :
           /\ q \in DOMAIN regions[j].queues
           /\ Len(regions[j].queues[q]) >= Len(InitialLocal[j].queues[q])
           /\ SubSeq(regions[j].queues[q], 1, Len(InitialLocal[j].queues[q]))
                = InitialLocal[j].queues[q]

\* A table run that failed after it had written a page, followed by a completed
\* run, on a table that held a row under a key the remote table does not have
\* and a row under a key it has.
C18_Witness ==
  /\ IsTable
  /\ Len(history) = 2
  /\ history[1].outcome = "failed"
  /\ history[1].writes > 0
  /\ history[2].outcome = "done"
  /\ InitialLocal.rows = OldRows
  /\ 1 \in DOMAIN remoteTable
  /\ [pk |-> 0, val |-> "old"] \in localTable.rows
  /\ [pk |-> 1, val |-> "old"] \notin localTable.rows

====
